---- MODULE Spec2Model ----
(***************************************************************************)
(* Model of the shadPS4 command-line front end: ArgParser::Parse           *)
(* (src/src/common/arg_parser.cpp), ResolveGamePath and main               *)
(* (src/src/main.cpp), and Core::ResolveGameFolder                         *)
(* (src/src/core/game_util.cpp), which has a specification of its own,     *)
(* SpecFolder.                                                             *)
(*                                                                         *)
(* A std::string is a sequence of one-character strings, so that           *)
(* cur_arg[0] and std::stoi are computed on the characters.  argv is a     *)
(* sequence of such strings; C index i is TLA+ index i + 1.                *)
(*                                                                         *)
(* Each branch of Parse's loop is an operator from the state Parse works   *)
(* on to the state it leaves, and an action that applies it; Parse as a    *)
(* function is the iteration of these operators.  The filesystem is fixed  *)
(* (one regular file, one directory); the loaded configuration holds 0 to  *)
(* MaxDirs install directories; what Common::FS::FindGameByID returns for  *)
(* a directory is chosen at the call.  The message box main shows when     *)
(* there is no argument is not modelled.                                   *)
(***************************************************************************)
EXTENDS Integers, Sequences, FiniteSets, TLC

\* ------------------------------------------------------------------ bounds
\* Number of tokens after the program name.
MaxArgs == 3
\* Number of install directories the loaded configuration may hold.
MaxDirs == 2

\* ------------------------------------------------------------------ tokens
T_prog == <<"s","h","a","d","p","s","4">>
T_g == <<"-","g">>
T_game == <<"-","-","g","a","m","e">>
T_p == <<"-","p">>
T_patch == <<"-","-","p","a","t","c","h">>
T_f == <<"-","f">>
T_fullscreen == <<"-","-","f","u","l","l","s","c","r","e","e","n">>
T_add_game_folder == <<"-","-","a","d","d","-","g","a","m","e","-","f","o","l","d","e","r">>
T_set_addon_folder == <<"-","-","s","e","t","-","a","d","d","o","n","-","f","o","l","d","e","r">>
T_override_root == <<"-","-","o","v","e","r","r","i","d","e","-","r","o","o","t">>
T_wait_for_pid == <<"-","-","w","a","i","t","-","f","o","r","-","p","i","d">>
T_wait_for_debugger == <<"-","-","w","a","i","t","-","f","o","r","-","d","e","b","u","g","g","e","r">>
T_i == <<"-","i">>
T_ignore_game_patch == <<"-","-","i","g","n","o","r","e","-","g","a","m","e","-","p","a","t","c","h">>
T_log_append == <<"-","-","l","o","g","-","a","p","p","e","n","d">>
T_config_clean == <<"-","-","c","o","n","f","i","g","-","c","l","e","a","n">>
T_config_global == <<"-","-","c","o","n","f","i","g","-","g","l","o","b","a","l">>
T_show_fps == <<"-","-","s","h","o","w","-","f","p","s">>
T_h == <<"-","h">>
T_help == <<"-","-","h","e","l","p">>
T_sep == <<"-","-">>
T_true == <<"t","r","u","e">>
T_false == <<"f","a","l","s","e">>

\* Tokens that are no flag of the program.
T_True == <<"T","r","u","e">>
T_empty == <<>>
T_elf == <<"g","a","m","e",".","e","l","f">>
T_dir == <<"g","a","m","e","s">>
T_abc == <<"a","b","c">>
T_12 == <<"1","2">>
T_12abc == <<"1","2","a","b","c">>

\* The tokens a command line is drawn from.
Tokens ==
    { T_g, T_p, T_f, T_add_game_folder, T_set_addon_folder, T_override_root,
      T_wait_for_pid, T_i, T_ignore_game_patch, T_h, T_sep,
      T_true, T_false, T_True, T_empty, T_elf, T_dir, T_abc, T_12, T_12abc }

\* ------------------------------------------------------------- filesystem
\* The filesystem the process runs in: one regular file, one directory.
RegularFiles == { T_elf }
Directories == { T_dir }

\* std::filesystem::exists / is_directory
Exists(p) == p \in RegularFiles \cup Directories
IsDirectory(p) == p \in Directories

\* ArgParser::ValidatePath(path, is_file): the path when it has the asked kind.
ValidatePath(path, is_file) ==
    IF is_file
    THEN IF path \in RegularFiles THEN [has |-> TRUE, val |-> path]
                                   ELSE [has |-> FALSE, val |-> <<>>]
    ELSE IF IsDirectory(path) THEN [has |-> TRUE, val |-> path]
                              ELSE [has |-> FALSE, val |-> <<>>]

\* ---------------------------------------------------------------- std::stoi
IsSpace(c) == c \in {" ", "\t", "\n", "\r", "\f"}
DigitChars == <<"0","1","2","3","4","5","6","7","8","9">>
IsDigit(c) == \E k \in 1..Len(DigitChars) : DigitChars[k] = c
DigitVal(c) == (CHOOSE k \in 1..Len(DigitChars) : DigitChars[k] = c) - 1
\* the range of int
IntMax == 2^30 + (2^30 - 1)
IntMin == -IntMax - 1

\* Index of the first character of s at or after k that is no white space.
RECURSIVE SkipSpace(_, _)
SkipSpace(s, k) ==
    IF k <= Len(s) /\ IsSpace(s[k]) THEN SkipSpace(s, k + 1) ELSE k

\* The digits of s from index k on: [n |-> how many, val |-> their value].
RECURSIVE ReadDigits(_, _, _, _)
ReadDigits(s, k, n, val) ==
    IF k <= Len(s) /\ IsDigit(s[k])
    THEN ReadDigits(s, k + 1, n + 1, val * 10 + DigitVal(s[k]))
    ELSE [n |-> n, val |-> val]

\* std::stoi(str): leading white space, an optional sign, then the longest run
\* of digits; what follows the digits is ignored.  It throws
\* std::invalid_argument when there is no digit and std::out_of_range when the
\* value does not fit an int: [ok |-> FALSE].
Stoi(s) ==
    LET k == SkipSpace(s, 1)
        neg == k <= Len(s) /\ s[k] = "-"
        signed == k <= Len(s) /\ s[k] \in {"-", "+"}
        d == ReadDigits(s, IF signed THEN k + 1 ELSE k, 0, 0)
        v == IF neg THEN -d.val ELSE d.val
    IN IF d.n = 0 \/ v > IntMax \/ v < IntMin
       THEN [ok |-> FALSE, val |-> 0]
       ELSE [ok |-> TRUE, val |-> v]

\* ------------------------------------------------------------------- state
VARIABLES
    argv,                 \* the command line, program name first
    pc,                   \* where the process is
    exit_code,            \* the exit code, once pc = "exit"
    i,                    \* Parse's loop index
    result,               \* ArgParser::result, a ParsedArgs
    patch_file,           \* MemoryPatcher::patch_file
    ignore_game_patches,  \* Core::FileSys::MntPoints::ignore_game_patches
    config,               \* the Config module's values
    output,               \* what was written to std::cout / std::cerr
    eboot_path,           \* ResolveGamePath's eboot_path, then main's
    dir_index,            \* position of ResolveGamePath's loop in the install dirs
    find_calls,           \* the calls made to Common::FS::FindGameByID
    dirs_read,            \* ResolveGamePath called Config::getGameInstallDirs
    found,                \* the path ResolveGamePath returned came from a scan
    waited,               \* the calls made to Core::Debugger::WaitForPid
    ran,                  \* the calls made to Emulator::Run
    file,                 \* ResolveGameFolder's argument file
    provided_folder,      \* ResolveGameFolder's argument provided_folder
    fs_dirs,              \* the directories std::filesystem::is_directory finds
    folder_pc,            \* where the call of ResolveGameFolder is
    resolved              \* the path ResolveGameFolder returned

vars == << argv, pc, exit_code, i, result, patch_file, ignore_game_patches,
           config, output, eboot_path, dir_index, find_calls, dirs_read,
           found, waited, ran, file, provided_folder, fs_dirs, folder_pc,
           resolved >>

folderVars == << file, provided_folder, fs_dirs, folder_pc, resolved >>

mainVars == << eboot_path, dir_index, find_calls, dirs_read, found, waited, ran >>

argc == Len(argv)

\* std::optional
Nullopt == [has |-> FALSE, val |-> <<>>]
NulloptInt == [has |-> FALSE, val |-> 0]
Some(v) == [has |-> TRUE, val |-> v]

\* ParsedArgs{} (arg_parser.h)
ParsedArgs ==
    [ has_game_argument |-> FALSE,
      game_path |-> <<>>,
      game_args |-> <<>>,
      game_folder |-> Nullopt,
      wait_for_debugger |-> FALSE,
      wait_pid |-> NulloptInt ]

\* The n-th install directory of the loaded configuration.
InstallDir(n) == <<"/", DigitChars[n + 1]>>

\* The Config module after Config::load: the install directories are the
\* loaded ones, every other value is its default.  The *_calls fields log the
\* setter calls.
LoadedConfig(n) ==
    [ install_dirs |-> [k \in 1..n |-> InstallDir(k)],
      addon_dir |-> <<>>,
      is_fullscreen |-> FALSE,
      fullscreen_calls |-> <<>>,
      config_mode |-> "Default",
      show_fps |-> FALSE,
      log_append |-> FALSE,
      saved |-> 0 ]

\* Core::GameUtil::ParseFullscreenParam(param), a std::optional<bool>
ParseFullscreenParam(param) ==
    IF param = T_true THEN [has |-> TRUE, val |-> TRUE]
    ELSE IF param = T_false THEN [has |-> TRUE, val |-> FALSE]
    ELSE [has |-> FALSE, val |-> FALSE]

\* ------------------------------------------------------ ArgParser::Parse
\* The part of the state Parse works on, as one record, and back.
Cur ==
    [ pc |-> pc, exit_code |-> exit_code, i |-> i, result |-> result,
      patch_file |-> patch_file, ignore_game_patches |-> ignore_game_patches,
      config |-> config, output |-> output ]

Set(s) ==
    /\ pc' = s.pc
    /\ exit_code' = s.exit_code
    /\ i' = s.i
    /\ result' = s.result
    /\ patch_file' = s.patch_file
    /\ ignore_game_patches' = s.ignore_game_patches
    /\ config' = s.config
    /\ output' = s.output

\* argv[k] and cur_arg of the iteration state s is in
Arg(av, k) == av[k + 1]
CurArg(av, s) == Arg(av, s.i)
\* cur_arg[0]; of an empty std::string it is the terminating null character
FirstChar(str) == IF Len(str) = 0 THEN "NUL" ELSE str[1]

\* std::cout / std::cerr << ...
Say(s, msg, arg) == [s EXCEPT !.output = Append(@, [msg |-> msg, arg |-> arg])]
\* exit(code)
Exit(s, code) == [s EXCEPT !.pc = "exit", !.exit_code = code]
\* continue: the for loop's ++i
Continue(s) == [s EXCEPT !.i = @ + 1]
\* break, then return result
Break(s) == [s EXCEPT !.pc = "parsed"]

\* The keys of arg_map and their callbacks (RegisterArguments).
ArgMapKeys ==
    { T_h, T_help, T_g, T_game, T_p, T_patch, T_i, T_ignore_game_patch, T_f,
      T_fullscreen, T_add_game_folder, T_set_addon_folder, T_log_append,
      T_config_clean, T_config_global, T_override_root, T_wait_for_debugger,
      T_wait_for_pid, T_show_fps }

\* PrintHelp()
PrintHelp(s) == Say(s, "Usage", <<>>)

\* help_callback: PrintHelp(); exit(0)
HelpCallback(s) == Exit(PrintHelp(s), 0)

\* Callback with --ignore-game-patch left without the callback of -i.
Callback_ShortOnly(key, s) ==
    CASE key \in {T_h, T_help} -> HelpCallback(s)
      [] key = T_i -> [s EXCEPT !.ignore_game_patches = TRUE]
      [] key = T_log_append -> [s EXCEPT !.config.log_append = TRUE]
      [] key = T_config_clean -> [s EXCEPT !.config.config_mode = "Clean"]
      [] key = T_config_global -> [s EXCEPT !.config.config_mode = "Global"]
      [] key = T_wait_for_debugger -> [s EXCEPT !.result.wait_for_debugger = TRUE]
      [] key = T_show_fps -> [s EXCEPT !.config.show_fps = TRUE]
      [] OTHER -> s

\* arg_map[key](i)
Callback(key, s) ==
    CASE key \in {T_h, T_help} -> HelpCallback(s)
      [] key \in {T_i, T_ignore_game_patch} ->
            [s EXCEPT !.ignore_game_patches = TRUE]
      [] key = T_log_append -> [s EXCEPT !.config.log_append = TRUE]
      [] key = T_config_clean -> [s EXCEPT !.config.config_mode = "Clean"]
      [] key = T_config_global -> [s EXCEPT !.config.config_mode = "Global"]
      [] key = T_wait_for_debugger -> [s EXCEPT !.result.wait_for_debugger = TRUE]
      [] key = T_show_fps -> [s EXCEPT !.config.show_fps = TRUE]
      [] OTHER -> s

\* Parse up to the loop: result = ParsedArgs{}; no argument prints the usage
\* and exits 1.
ParseEnter(av, s) ==
    LET r == [s EXCEPT !.result = ParsedArgs]
    IN IF Len(av) = 1 THEN Exit(PrintHelp(r), 1)
       ELSE [r EXCEPT !.pc = "scan", !.i = 1]

\* GameBranch with the exit(1) of a missing value forgotten.
GameBranch_NoExit(av, s) ==
    IF s.i + 1 < Len(av)
    THEN Continue([s EXCEPT !.result.game_path = Arg(av, s.i + 1),
                            !.result.has_game_argument = TRUE,
                            !.i = @ + 1])
    ELSE Continue(Say(s, "Missing argument", CurArg(av, s)))

\* if (cur_arg == "-g" || cur_arg == "--game")
IsGame(tok) == tok \in {T_g, T_game}
GameBranch(av, s) ==
    IF s.i + 1 < Len(av)
    THEN Continue([s EXCEPT !.result.game_path = Arg(av, s.i + 1),
                            !.result.has_game_argument = TRUE,
                            !.i = @ + 1])
    ELSE Exit(Say(s, "Missing argument", CurArg(av, s)), 1)

\* if (cur_arg == "-p" || cur_arg == "--patch")
IsPatch(tok) == tok \in {T_p, T_patch}
PatchBranch(av, s) ==
    IF s.i + 1 < Len(av)
    THEN Continue([s EXCEPT !.patch_file = Arg(av, s.i + 1), !.i = @ + 1])
    ELSE Exit(Say(s, "Missing argument", CurArg(av, s)), 1)

\* FullscreenBranch comparing the value without regard to case.
FullscreenBranch_AnyCase(av, s) ==
    IF s.i + 1 >= Len(av)
    THEN Exit(Say(s, "Missing argument", CurArg(av, s)), 1)
    ELSE LET f_param == Arg(av, s.i + 1)
             n == [s EXCEPT !.i = @ + 1]
         IN IF f_param \in {T_true, T_True, T_false}
            THEN Continue([n EXCEPT
                     !.config.is_fullscreen = (f_param \in {T_true, T_True}),
                     !.config.fullscreen_calls = Append(@, f_param \in {T_true, T_True})])
            ELSE Exit(Say(n, "Invalid argument", CurArg(av, s)), 1)

\* if (cur_arg == "-f" || cur_arg == "--fullscreen")
IsFullscreen(tok) == tok \in {T_f, T_fullscreen}
FullscreenBranch(av, s) ==
    IF s.i + 1 >= Len(av)
    THEN Exit(Say(s, "Missing argument", CurArg(av, s)), 1)
    ELSE LET f_param == Arg(av, s.i + 1)
             n == [s EXCEPT !.i = @ + 1]
         IN IF f_param \in {T_true, T_false}
            THEN Continue([n EXCEPT
                     !.config.is_fullscreen = (f_param = T_true),
                     !.config.fullscreen_calls = Append(@, f_param = T_true)])
            ELSE Exit(Say(n, "Invalid argument", CurArg(av, s)), 1)

\* AddGameFolderBranch with the exit(0) after the save forgotten.
AddGameFolderBranch_NoExit(av, s) ==
    IF s.i + 1 >= Len(av)
    THEN Exit(Say(s, "Missing argument", CurArg(av, s)), 1)
    ELSE LET config_dir == Arg(av, s.i + 1)
             n == [s EXCEPT !.i = @ + 1]
             validated == ValidatePath(config_dir, FALSE)
         IN IF validated.has
            THEN Continue(Say([n EXCEPT
                              !.config.install_dirs = Append(@, validated.val),
                              !.config.saved = @ + 1],
                          "Game folder successfully saved", <<>>))
            ELSE Exit(Say(n, "File does not exist", config_dir), 1)

\* if (cur_arg == "--add-game-folder")
IsAddGameFolder(tok) == tok = T_add_game_folder
AddGameFolderBranch(av, s) ==
    IF s.i + 1 >= Len(av)
    THEN Exit(Say(s, "Missing argument", CurArg(av, s)), 1)
    ELSE LET config_dir == Arg(av, s.i + 1)
             n == [s EXCEPT !.i = @ + 1]
             validated == ValidatePath(config_dir, FALSE)
         IN IF validated.has
            THEN Exit(Say([n EXCEPT
                              !.config.install_dirs = Append(@, validated.val),
                              !.config.saved = @ + 1],
                          "Game folder successfully saved", <<>>), 0)
            ELSE Exit(Say(n, "File does not exist", config_dir), 1)

\* if (cur_arg == "--set-addon-folder")
IsSetAddonFolder(tok) == tok = T_set_addon_folder
SetAddonFolderBranch(av, s) ==
    IF s.i + 1 >= Len(av)
    THEN Exit(Say(s, "Missing argument", CurArg(av, s)), 1)
    ELSE LET config_dir == Arg(av, s.i + 1)
             n == [s EXCEPT !.i = @ + 1]
             validated == ValidatePath(config_dir, FALSE)
         IN IF validated.has
            THEN Exit(Say([n EXCEPT
                              !.config.addon_dir = validated.val,
                              !.config.saved = @ + 1],
                          "Addon folder successfully saved", <<>>), 0)
            ELSE Exit(Say(n, "File does not exist", config_dir), 1)

\* if (cur_arg == "--override-root")
IsOverrideRoot(tok) == tok = T_override_root
OverrideRootBranch(av, s) ==
    IF s.i + 1 >= Len(av)
    THEN Exit(Say(s, "Missing argument", CurArg(av, s)), 1)
    ELSE LET folder == Arg(av, s.i + 1)
             n == [s EXCEPT !.i = @ + 1]
         IN IF Exists(folder) /\ IsDirectory(folder)
            THEN Continue([n EXCEPT !.result.game_folder = Some(folder)])
            ELSE Exit(Say(n, "Folder does not exist", folder), 1)

\* if (cur_arg == "--wait-for-pid")
IsWaitForPid(tok) == tok = T_wait_for_pid
WaitForPidBranch(av, s) ==
    IF s.i + 1 >= Len(av)
    THEN Exit(Say(s, "Missing argument", CurArg(av, s)), 1)
    ELSE LET n == [s EXCEPT !.i = @ + 1]
             pid == Stoi(Arg(av, s.i + 1))
         IN IF pid.ok
            THEN Continue([n EXCEPT !.result.wait_pid = [has |-> TRUE, val |-> pid.val]])
            ELSE Exit(Say(n, "Invalid PID argument", Arg(av, s.i + 1)), 1)

IsValueFlag(tok) ==
    \/ IsGame(tok) \/ IsPatch(tok) \/ IsFullscreen(tok) \/ IsAddGameFolder(tok)
    \/ IsSetAddonFolder(tok) \/ IsOverrideRoot(tok) \/ IsWaitForPid(tok)

\* auto it = arg_map.find(cur_arg);
\* if (it != arg_map.end() && cur_arg != "-h" && cur_arg != "--help")
IsRegistered(tok) ==
    /\ ~IsValueFlag(tok)
    /\ tok \in ArgMapKeys /\ tok # T_h /\ tok # T_help
RegisteredBranch(av, s) == Continue(Callback(CurArg(av, s), s))

\* SeparatorBranch with the copy loop starting one token late.
SeparatorBranch_SkipFirst(av, s) ==
    IF s.i + 1 = Len(av)
    THEN Break(Say(s, "Warning: no game arguments", <<>>))
    ELSE Break([s EXCEPT !.result.game_args =
                   @ \o [j \in 1..(Len(av) - (s.i + 2)) |-> Arg(av, s.i + 1 + j)]])

\* if (cur_arg == "--")
IsSeparator(tok) ==
    ~IsValueFlag(tok) /\ ~IsRegistered(tok) /\ tok = T_sep
SeparatorBranch(av, s) ==
    IF s.i + 1 = Len(av)
    THEN Break(Say(s, "Warning: no game arguments", <<>>))
    ELSE Break([s EXCEPT !.result.game_args =
                   @ \o [j \in 1..(Len(av) - (s.i + 1)) |-> Arg(av, s.i + j)]])

\* IsPositional without the test of has_game_argument.
IsPositional_Overrides(av, s) ==
    LET tok == CurArg(av, s)
    IN /\ ~IsValueFlag(tok) /\ ~IsRegistered(tok) /\ ~IsSeparator(tok)
       /\ s.i = Len(av) - 1
       /\ \/ s.i + 1 < Len(av) /\ Arg(av, s.i + 1) = T_sep
          \/ FirstChar(tok) # "-"

\* PositionalBranch writing game_path without has_game_argument.
PositionalBranch_PathOnly(av, s) ==
    Continue([s EXCEPT !.result.game_path = CurArg(av, s)])

\* if (i == argc - 1 && !result.has_game_argument) with one of its two inner
\* conditions true
IsPositional(av, s) ==
    LET tok == CurArg(av, s)
    IN /\ ~IsValueFlag(tok) /\ ~IsRegistered(tok) /\ ~IsSeparator(tok)
       /\ s.i = Len(av) - 1 /\ ~s.result.has_game_argument
       /\ \/ s.i + 1 < Len(av) /\ Arg(av, s.i + 1) = T_sep
          \/ FirstChar(tok) # "-"
PositionalBranch(av, s) ==
    Continue([s EXCEPT !.result.game_path = CurArg(av, s),
                       !.result.has_game_argument = TRUE])

\* std::cerr << "Unknown argument: " ...; the loop goes on
IsUnknown(av, s) ==
    LET tok == CurArg(av, s)
    IN /\ ~IsValueFlag(tok) /\ ~IsRegistered(tok) /\ ~IsSeparator(tok)
       /\ ~IsPositional(av, s)
UnknownBranch(av, s) == Continue(Say(s, "Unknown argument", CurArg(av, s)))

\* return result, once the loop has run out of tokens
ParseReturn(s) == [s EXCEPT !.pc = "parsed"]

\* One iteration of Parse's loop, Parse's entry and its return, as a function
\* of the state: the branch the code takes on cur_arg.
ParseStep(av, s) ==
    CASE s.pc = "main" -> ParseEnter(av, s)
      [] s.pc = "scan" /\ s.i >= Len(av) -> ParseReturn(s)
      [] s.pc = "scan" /\ s.i < Len(av) ->
            LET tok == CurArg(av, s)
            IN CASE IsGame(tok) -> GameBranch(av, s)
                 [] IsPatch(tok) -> PatchBranch(av, s)
                 [] IsFullscreen(tok) -> FullscreenBranch(av, s)
                 [] IsAddGameFolder(tok) -> AddGameFolderBranch(av, s)
                 [] IsSetAddonFolder(tok) -> SetAddonFolderBranch(av, s)
                 [] IsOverrideRoot(tok) -> OverrideRootBranch(av, s)
                 [] IsWaitForPid(tok) -> WaitForPidBranch(av, s)
                 [] IsRegistered(tok) -> RegisteredBranch(av, s)
                 [] IsSeparator(tok) -> SeparatorBranch(av, s)
                 [] IsPositional(av, s) -> PositionalBranch(av, s)
                 [] OTHER -> UnknownBranch(av, s)
      [] OTHER -> s

\* Parse(argc, argv) run from state s until it returns or exits.
RECURSIVE Parse(_, _)
Parse(av, s) ==
    IF s.pc \in {"main", "scan"} THEN Parse(av, ParseStep(av, s)) ELSE s

\* ----------------------------------------------------------------- actions
Scanning == pc = "scan" /\ i < argc
Token == CurArg(argv, Cur)

EnterParse ==
    /\ pc = "main"
    /\ Set(ParseEnter(argv, Cur))
    /\ UNCHANGED << folderVars, argv, mainVars >>

GameFlag ==
    /\ Scanning /\ IsGame(Token)
    /\ Set(GameBranch(argv, Cur))
    /\ UNCHANGED << folderVars, argv, mainVars >>

PatchFlag ==
    /\ Scanning /\ IsPatch(Token)
    /\ Set(PatchBranch(argv, Cur))
    /\ UNCHANGED << folderVars, argv, mainVars >>

FullscreenFlag ==
    /\ Scanning /\ IsFullscreen(Token)
    /\ Set(FullscreenBranch(argv, Cur))
    /\ UNCHANGED << folderVars, argv, mainVars >>

AddGameFolderFlag ==
    /\ Scanning /\ IsAddGameFolder(Token)
    /\ Set(AddGameFolderBranch(argv, Cur))
    /\ UNCHANGED << folderVars, argv, mainVars >>

SetAddonFolderFlag ==
    /\ Scanning /\ IsSetAddonFolder(Token)
    /\ Set(SetAddonFolderBranch(argv, Cur))
    /\ UNCHANGED << folderVars, argv, mainVars >>

OverrideRootFlag ==
    /\ Scanning /\ IsOverrideRoot(Token)
    /\ Set(OverrideRootBranch(argv, Cur))
    /\ UNCHANGED << folderVars, argv, mainVars >>

WaitForPidFlag ==
    /\ Scanning /\ IsWaitForPid(Token)
    /\ Set(WaitForPidBranch(argv, Cur))
    /\ UNCHANGED << folderVars, argv, mainVars >>

RegisteredFlag ==
    /\ Scanning /\ IsRegistered(Token)
    /\ Set(RegisteredBranch(argv, Cur))
    /\ UNCHANGED << folderVars, argv, mainVars >>

Separator ==
    /\ Scanning /\ IsSeparator(Token)
    /\ Set(SeparatorBranch(argv, Cur))
    /\ UNCHANGED << folderVars, argv, mainVars >>

Positional ==
    /\ Scanning /\ IsPositional(argv, Cur)
    /\ Set(PositionalBranch(argv, Cur))
    /\ UNCHANGED << folderVars, argv, mainVars >>

UnknownArgument ==
    /\ Scanning /\ IsUnknown(argv, Cur)
    /\ Set(UnknownBranch(argv, Cur))
    /\ UNCHANGED << folderVars, argv, mainVars >>

ReturnParse ==
    /\ pc = "scan" /\ i >= argc
    /\ Set(ParseReturn(Cur))
    /\ UNCHANGED << folderVars, argv, mainVars >>

\* ---------------------------------------------------------------- main.cpp
\* What Common::FS::FindGameByID returns when it finds the game in a directory.
FoundPath(install_dir, game_path) ==
    install_dir \o <<"/">> \o game_path \o <<"/","e","b","o","o","t",".","b","i","n">>

max_depth == 5

\* main: the warning printed when Config::getGameInstallDirs() is empty
WarnNoGameFolder(out) ==
    IF Len(config.install_dirs) = 0
    THEN Append(out, [msg |-> "Warning: No game folder set", arg |-> <<>>])
    ELSE out

\* main: if (!args.has_game_argument) return 1
MainNoGameArgument ==
    /\ pc = "parsed" /\ ~result.has_game_argument
    /\ output' = Append(output, [msg |-> "Please provide a game path or ID", arg |-> <<>>])
    /\ pc' = "exit" /\ exit_code' = 1
    /\ UNCHANGED << folderVars, argv, i, result, patch_file, ignore_game_patches, config, mainVars >>

\* ResolveGamePath: the path exists and is returned
ResolveExisting ==
    /\ pc = "parsed" /\ result.has_game_argument
    /\ Exists(result.game_path)
    /\ output' = WarnNoGameFolder(output)
    /\ eboot_path' = result.game_path
    /\ pc' = "resolved"
    /\ UNCHANGED << folderVars, argv, exit_code, i, result, patch_file, ignore_game_patches,
                    config, dir_index, find_calls, dirs_read, found, waited, ran >>

\* ResolveSearch with is_regular_file in the place of exists.
ResolveSearch_FilesOnly ==
    /\ pc = "parsed" /\ result.has_game_argument
    /\ result.game_path \notin RegularFiles
    /\ output' = WarnNoGameFolder(output)
    /\ eboot_path' = result.game_path
    /\ dirs_read' = TRUE
    /\ dir_index' = 1
    /\ pc' = "search"
    /\ UNCHANGED << folderVars, argv, exit_code, i, result, patch_file, ignore_game_patches,
                    config, find_calls, found, waited, ran >>

\* ResolveGamePath: the path does not exist, the loop over
\* Config::getGameInstallDirs() begins
ResolveSearch ==
    /\ pc = "parsed" /\ result.has_game_argument
    /\ ~Exists(result.game_path)
    /\ output' = WarnNoGameFolder(output)
    /\ eboot_path' = result.game_path
    /\ dirs_read' = TRUE
    /\ dir_index' = 1
    /\ pc' = "search"
    /\ UNCHANGED << folderVars, argv, exit_code, i, result, patch_file, ignore_game_patches,
                    config, find_calls, found, waited, ran >>

\* ScanInstallDir with the return of the match forgotten: the loop goes on.
ScanInstallDir_NoReturn ==
    /\ pc = "search" /\ dir_index <= Len(config.install_dirs)
    /\ LET install_dir == config.install_dirs[dir_index]
       IN \E hit \in BOOLEAN :
             /\ find_calls' = Append(find_calls,
                    [dir |-> install_dir, id |-> result.game_path,
                     depth |-> max_depth, hit |-> hit])
             /\ dir_index' = dir_index + 1
             /\ IF hit
                THEN /\ eboot_path' = FoundPath(install_dir, result.game_path)
                     /\ found' = TRUE
                ELSE UNCHANGED << eboot_path, found >>
             /\ UNCHANGED pc
    /\ UNCHANGED << folderVars, argv, exit_code, i, result, patch_file, ignore_game_patches,
                    config, output, dirs_read, waited, ran >>

\* ResolveGamePath: one iteration of the loop; FindGameByID finds the game in
\* the directory or does not.  find_calls logs the call and what it returned.
ScanInstallDir ==
    /\ pc = "search" /\ dir_index <= Len(config.install_dirs)
    /\ LET install_dir == config.install_dirs[dir_index]
       IN \E hit \in BOOLEAN :
             /\ find_calls' = Append(find_calls,
                    [dir |-> install_dir, id |-> result.game_path,
                     depth |-> max_depth, hit |-> hit])
             /\ IF hit
                THEN /\ eboot_path' = FoundPath(install_dir, result.game_path)
                     /\ found' = TRUE
                     /\ pc' = "resolved"
                     /\ UNCHANGED dir_index
                ELSE /\ dir_index' = dir_index + 1
                     /\ UNCHANGED << eboot_path, found, pc >>
    /\ UNCHANGED << folderVars, argv, exit_code, i, result, patch_file, ignore_game_patches,
                    config, output, dirs_read, waited, ran >>

\* ResolveGamePath: no directory is left; return eboot_path
ResolveNotFound ==
    /\ pc = "search" /\ dir_index > Len(config.install_dirs)
    /\ pc' = "resolved"
    /\ UNCHANGED << folderVars, argv, exit_code, i, result, patch_file, ignore_game_patches,
                    config, output, mainVars >>

\* std::filesystem::exists(eboot_path) in main: a path FindGameByID returned
\* is an entry it found
ResolvedExists == found \/ Exists(eboot_path)

\* MainGameNotFound with the return forgotten: main goes on to the launch.
MainGameNotFound_FallThrough ==
    /\ pc = "resolved" /\ ~(found \/ Exists(eboot_path))
    /\ output' = Append(output, [msg |-> "Game ID or file path not found",
                                 arg |-> result.game_path])
    /\ pc' = "run"
    /\ UNCHANGED << folderVars, argv, exit_code, i, result, patch_file, ignore_game_patches,
                    config, mainVars >>

\* main: if (!std::filesystem::exists(eboot_path)) return 1
MainGameNotFound ==
    /\ pc = "resolved" /\ ~ResolvedExists
    /\ output' = Append(output, [msg |-> "Game ID or file path not found",
                                 arg |-> result.game_path])
    /\ pc' = "exit" /\ exit_code' = 1
    /\ UNCHANGED << folderVars, argv, i, result, patch_file, ignore_game_patches, config, mainVars >>

\* main: Core::Debugger::WaitForPid(args.wait_pid.value())
MainWaitForPid ==
    /\ pc = "resolved" /\ ResolvedExists
    /\ result.wait_pid.has
    /\ waited' = Append(waited, result.wait_pid.val)
    /\ pc' = "run"
    /\ UNCHANGED << folderVars, argv, exit_code, i, result, patch_file, ignore_game_patches,
                    config, output, eboot_path, dir_index, find_calls, dirs_read,
                    found, ran >>

\* main: emulator->Run(eboot_path, args.game_args, args.game_folder); return 0
MainRun ==
    /\ \/ pc = "run"
       \/ pc = "resolved" /\ ResolvedExists /\ ~result.wait_pid.has
    /\ ran' = Append(ran, [eboot_path |-> eboot_path, game_args |-> result.game_args,
                           game_folder |-> result.game_folder,
                           waitForDebuggerBeforeRun |-> result.wait_for_debugger])
    /\ pc' = "exit" /\ exit_code' = 0
    /\ UNCHANGED << folderVars, argv, i, result, patch_file, ignore_game_patches, config, output,
                    eboot_path, dir_index, find_calls, dirs_read, found, waited >>

\* ------------------------------------------------------ ResolveGameFolder
\* A std::filesystem::path is its string, "/" the separator.
Separator_ == "/"
Root == << "/" >>

\* The last position of character c in str, 0 when there is none.
LastPos(str, c) ==
    IF \E k \in 1..Len(str) : str[k] = c
    THEN CHOOSE k \in 1..Len(str) :
             str[k] = c /\ \A m \in (k + 1)..Len(str) : str[m] # c
    ELSE 0

\* std::string::npos
Npos == -1

\* std::string::rfind(c): the C index of the last c, npos when there is none.
RFind(str, c) == IF LastPos(str, c) = 0 THEN Npos ELSE LastPos(str, c) - 1

\* std::string::substr(0, count)
Substr0(str, count) ==
    IF count = Npos \/ count > Len(str) THEN str ELSE SubSeq(str, 1, count)

\* std::string::ends_with(suffix)
EndsWith(str, suffix) ==
    /\ Len(suffix) <= Len(str)
    /\ SubSeq(str, Len(str) - Len(suffix) + 1, Len(str)) = suffix

\* The path without its trailing separators, the root kept.
RECURSIVE StripSeparators(_)
StripSeparators(p) ==
    IF Len(p) > 1 /\ p[Len(p)] = Separator_
    THEN StripSeparators(SubSeq(p, 1, Len(p) - 1))
    ELSE p

\* path::filename(): what follows the last separator.
Filename(p) == SubSeq(p, LastPos(p, Separator_) + 1, Len(p))

\* path::parent_path(): what precedes the last separator, without the
\* separators that end it; the root is its own parent.
ParentPath(p) ==
    LET k == LastPos(p, Separator_)
    IN IF k = 0 THEN <<>>
       ELSE IF k = 1 THEN Root
       ELSE StripSeparators(SubSeq(p, 1, k - 1))

\* path::operator/ with a relative right-hand side: a separator is added
\* after a left-hand side that has a filename, also when the right is empty.
PathAppend(p, q) ==
    IF Filename(p) # <<>> THEN p \o << Separator_ >> \o q ELSE p \o q

\* std::filesystem::is_directory: the empty path is none, a trailing
\* separator names the same directory, the root always is one.
IsDirectoryIn(p, dirs) ==
    /\ p # <<>>
    /\ StripSeparators(p) \in dirs \cup { Root }

Suffix_UPDATE == << "-", "U", "P", "D", "A", "T", "E" >>
Suffix_patch == << "-", "p", "a", "t", "c", "h" >>

\* if (game_folder_name.ends_with("-UPDATE") || game_folder_name.ends_with("-patch"))
HasPatchSuffix(game_folder_name) ==
    EndsWith(game_folder_name, Suffix_UPDATE) \/ EndsWith(game_folder_name, Suffix_patch)

\* const std::string base_name = game_folder_name.substr(0, game_folder_name.rfind('-'));
BaseName(game_folder_name) == Substr0(game_folder_name, RFind(game_folder_name, "-"))

\* const auto base_path = game_folder.parent_path() / base_name;
BasePath(f) ==
    PathAppend(ParentPath(ParentPath(f)), BaseName(Filename(ParentPath(f))))

\* Core::ResolveGameFolder(file, provided_folder) on a filesystem whose
\* directories are dirs.
ResolveGameFolder(f, provided, dirs) ==
    IF provided.has THEN provided.val
    ELSE IF HasPatchSuffix(Filename(ParentPath(f))) /\ IsDirectoryIn(BasePath(f), dirs)
         THEN BasePath(f)
         ELSE ParentPath(f)

\* if (provided_folder.has_value()) return provided_folder.value();
ReturnProvidedFolder ==
    /\ folder_pc = "call"
    /\ provided_folder.has
    /\ resolved' = provided_folder.val
    /\ folder_pc' = "done"
    /\ UNCHANGED << file, provided_folder, fs_dirs, argv, pc, exit_code, i, result,
                    patch_file, ignore_game_patches, config, output, mainVars >>

\* if (std::filesystem::is_directory(base_path)) return base_path;
ReturnBasePath ==
    /\ folder_pc = "call"
    /\ ~provided_folder.has
    /\ HasPatchSuffix(Filename(ParentPath(file)))
    /\ IsDirectoryIn(BasePath(file), fs_dirs)
    /\ resolved' = BasePath(file)
    /\ folder_pc' = "done"
    /\ UNCHANGED << file, provided_folder, fs_dirs, argv, pc, exit_code, i, result,
                    patch_file, ignore_game_patches, config, output, mainVars >>

\* return game_folder;
ReturnGameFolder ==
    /\ folder_pc = "call"
    /\ ~provided_folder.has
    /\ ~(HasPatchSuffix(Filename(ParentPath(file))) /\ IsDirectoryIn(BasePath(file), fs_dirs))
    /\ resolved' = ParentPath(file)
    /\ folder_pc' = "done"
    /\ UNCHANGED << file, provided_folder, fs_dirs, argv, pc, exit_code, i, result,
                    patch_file, ignore_game_patches, config, output, mainVars >>

\* The paths ResolveGameFolder is called on: an executable in a folder of
\* each kind of name, the folder in a directory, in the root or relative,
\* and an executable with no folder.
Name_A == << "A" >>
Name_AB == << "A", "-", "B" >>
Name_exe == << "e", "b", "o", "o", "t" >>
Path_g == << "/", "g" >>
Path_o == << "/", "o" >>

FolderNames ==
    { Name_A \o Suffix_UPDATE, Name_A \o Suffix_patch, Name_AB \o Suffix_UPDATE,
      Name_A \o << "-", "u", "p", "d", "a", "t", "e" >>,
      Name_A \o << "-", "P", "a", "t", "c", "h" >>,
      Name_A, Name_AB, Suffix_UPDATE, Suffix_patch }

ContainingDirs == { Path_g, Root, <<>> }

ExecutableFiles ==
    { PathAppend(PathAppend(c, n), Name_exe) : c \in ContainingDirs, n \in FolderNames }
        \cup { Name_exe, PathAppend(Root, Name_exe), PathAppend(Path_g, Name_exe) }

\* The directories above a path, nearest first up to the root or the
\* working directory.
RECURSIVE DirsAbove(_)
DirsAbove(p) ==
    IF ParentPath(p) = p \/ ParentPath(p) = <<>> THEN {}
    ELSE { ParentPath(p) } \cup DirsAbove(ParentPath(p))

\* The filesystems an executable f can be in: the directories above it and
\* any of the folders A and A-B next to its folder.
Filesystems(f) ==
    { DirsAbove(f) \cup extra :
        extra \in SUBSET { PathAppend(ParentPath(ParentPath(f)), n) : n \in { Name_A, Name_AB } } }

\* No call of ResolveGameFolder in progress.
NoFolderCall ==
    /\ file = <<>>
    /\ provided_folder = Nullopt
    /\ fs_dirs = {}
    /\ folder_pc = "idle"
    /\ resolved = <<>>

\* ------------------------------------------------------------ specification
CommandLines ==
    { <<T_prog>> \o args : args \in UNION { [1..n -> Tokens] : n \in 0..MaxArgs } }

Init ==
    /\ argv \in CommandLines
    /\ config \in { LoadedConfig(n) : n \in 0..MaxDirs }
    /\ pc = "main"
    /\ exit_code = 0
    /\ i = 0
    /\ result = ParsedArgs
    /\ patch_file = <<>>
    /\ ignore_game_patches = FALSE
    /\ output = <<>>
    /\ eboot_path = <<>>
    /\ dir_index = 0
    /\ find_calls = <<>>
    /\ dirs_read = FALSE
    /\ found = FALSE
    /\ waited = <<>>
    /\ ran = <<>>
    /\ NoFolderCall

Next ==
    \/ EnterParse
    \/ GameFlag
    \/ PatchFlag
    \/ FullscreenFlag
    \/ AddGameFolderFlag
    \/ SetAddonFolderFlag
    \/ OverrideRootFlag
    \/ WaitForPidFlag
    \/ RegisteredFlag
    \/ Separator
    \/ Positional
    \/ UnknownArgument
    \/ ReturnParse
    \/ MainNoGameArgument
    \/ ResolveExisting
    \/ ResolveSearch
    \/ ScanInstallDir
    \/ ResolveNotFound
    \/ MainGameNotFound
    \/ MainWaitForPid
    \/ MainRun

Spec == Init /\ [][Next]_vars

\* A call of ResolveGameFolder, as Emulator::Run makes it while main is in
\* Run: everything but the call stays as it is.
InitFolder ==
    /\ argv = << T_prog, T_elf >>
    /\ config = LoadedConfig(0)
    /\ pc = "run"
    /\ exit_code = 0
    /\ i = 2
    /\ result = [ParsedArgs EXCEPT !.game_path = T_elf, !.has_game_argument = TRUE]
    /\ patch_file = <<>>
    /\ ignore_game_patches = FALSE
    /\ output = <<>>
    /\ eboot_path = T_elf
    /\ dir_index = 0
    /\ find_calls = <<>>
    /\ dirs_read = FALSE
    /\ found = FALSE
    /\ waited = <<>>
    /\ ran = <<>>
    /\ file \in ExecutableFiles
    /\ provided_folder \in { Nullopt, Some(Path_o) }
    /\ fs_dirs \in Filesystems(file)
    /\ folder_pc = "call"
    /\ resolved = <<>>

NextFolder ==
    \/ ReturnProvidedFolder
    \/ ReturnBasePath
    \/ ReturnGameFolder

SpecFolder == InitFolder /\ [][NextFolder]_vars

\* ------------------------------------------------------------------ claims
\* The tokens at positions k+1 .. end of the command line av.
TokensAfter(av, k) == [j \in 1..(Len(av) - 1 - k) |-> Arg(av, k + j)]

HasLeadingDash(tok) == Len(tok) > 0 /\ tok[1] = "-"

\* The positions of av, from k on, that the scan reaches as cur_arg: a
\* value-taking flag consumes the next token, and "--" ends the scan.
RECURSIVE ScannedFrom(_, _)
ScannedFrom(av, k) ==
    IF k >= Len(av) THEN {}
    ELSE {k} \cup (IF Arg(av, k) = T_sep THEN {}
                   ELSE IF IsValueFlag(Arg(av, k)) THEN ScannedFrom(av, k + 2)
                   ELSE ScannedFrom(av, k + 1))
Scanned == ScannedFrom(argv, 1)

\* C1 as stated: whenever Parse returns, game_args is the tokens after the
\* position k of the (first) "--" of the command line, whatever precedes k.
C1_FirstSeparatorPassesRest ==
    pc = "parsed" =>
        \A k \in 1..(argc - 1) :
            (Arg(argv, k) = T_sep /\ \A j \in 1..(k - 1) : Arg(argv, j) # T_sep)
            => result.game_args = TokensAfter(argv, k)

\* C1 amended: whenever Parse returns and the scan reached "--" at position k
\* (it is not the value of a value-taking flag and no earlier "--" ended the
\* scan), game_args is exactly the tokens at k+1 .. end, in order, unmodified.
C1_ScannedSeparatorPassesRest ==
    pc = "parsed" =>
        \A k \in Scanned :
            Arg(argv, k) = T_sep => result.game_args = TokensAfter(argv, k)

\* C1 witness: Parse returned after "--" at a position k >= 2, and the first
\* token passed to the game begins with a dash.
C1_Witness ==
    /\ pc = "parsed"
    /\ \E k \in Scanned :
          /\ k >= 2 /\ Arg(argv, k) = T_sep
          /\ Len(result.game_args) >= 1
          /\ HasLeadingDash(result.game_args[1])
          /\ result.game_args = TokensAfter(argv, k)

\* C2: whenever Parse returns, a scanned bare token that is immediately
\* followed by "--", with no -g/--game scanned before it, is the game path,
\* has_game_argument is true and game_args is the tokens after the "--".
C2_BareTokenBeforeSeparator ==
    pc = "parsed" =>
        \A k \in Scanned :
            ( /\ ~HasLeadingDash(Arg(argv, k))
              /\ k + 1 < argc /\ Arg(argv, k + 1) = T_sep
              /\ \A j \in Scanned : j < k => ~IsGame(Arg(argv, j)) )
            => /\ result.game_path = Arg(argv, k)
               /\ result.has_game_argument
               /\ result.game_args = TokensAfter(argv, k + 1)

\* C3: whenever the scan is at -h or --help, the step prints the usage text
\* and exits with code 0.
C3_HelpExitsZero ==
    [][ (Scanning /\ Token \in {T_h, T_help})
        => /\ pc' = "exit" /\ exit_code' = 0
           /\ output' = Append(output, [msg |-> "Usage", arg |-> <<>>]) ]_vars

\* C4: whenever the scan is at a value-taking flag that is the final token,
\* the step exits with code 1 and leaves the parsed result, the patch file
\* and the configuration as they were.
C4_MissingValueExitsOne ==
    [][ (Scanning /\ IsValueFlag(Token) /\ i = argc - 1)
        => /\ pc' = "exit" /\ exit_code' = 1
           /\ result' = result
           /\ patch_file' = patch_file
           /\ config' = config
           /\ ignore_game_patches' = ignore_game_patches ]_vars

\* C4 witness: the process exited with code 1 at a value-taking flag that is
\* the final token, after an earlier flag had set the game path.
C4_Witness ==
    /\ pc = "exit" /\ exit_code = 1
    /\ i = argc - 1 /\ i \in Scanned /\ IsValueFlag(Arg(argv, i))
    /\ result.has_game_argument
    /\ output[Len(output)].msg = "Missing argument"

\* C5: whenever the scan is at -f/--fullscreen followed by a value v: "true"
\* sets fullscreen to true and "false" sets it to false, each continuing the
\* scan after v; any other v exits with code 1 and the fullscreen setting is
\* not written.  The accepted values are those of ParseFullscreenParam.
C5_FullscreenLiteral ==
    [][ (Scanning /\ IsFullscreen(Token) /\ i + 1 < argc)
        => LET v == Arg(argv, i + 1)
           IN /\ v = <<"t","r","u","e">> =>
                    /\ config'.is_fullscreen = TRUE
                    /\ config'.fullscreen_calls = Append(config.fullscreen_calls, TRUE)
                    /\ pc' = "scan" /\ i' = i + 2
              /\ v = <<"f","a","l","s","e">> =>
                    /\ config'.is_fullscreen = FALSE
                    /\ config'.fullscreen_calls = Append(config.fullscreen_calls, FALSE)
                    /\ pc' = "scan" /\ i' = i + 2
              /\ (v # <<"t","r","u","e">> /\ v # <<"f","a","l","s","e">>) =>
                    /\ pc' = "exit" /\ exit_code' = 1
                    /\ config' = config
              /\ ParseFullscreenParam(v).has <=> pc' = "scan"
              /\ ParseFullscreenParam(v).has =>
                    config'.is_fullscreen = ParseFullscreenParam(v).val ]_vars

\* C5 witness: the process exited with code 1 on -f True, fullscreen unwritten.
C5_Witness ==
    /\ pc = "exit" /\ exit_code = 1
    /\ i >= 2 /\ (i - 1) \in Scanned /\ IsFullscreen(Arg(argv, i - 1))
    /\ Arg(argv, i) = <<"T","r","u","e">>
    /\ config.fullscreen_calls = <<>>
    /\ output[Len(output)].msg = "Invalid argument"

\* The whole of v is a base-10 integer: an optional sign, then digits only.
IsBase10Integer(v) ==
    LET digits == IF Len(v) > 0 /\ v[1] \in {"-", "+"} THEN Tail(v) ELSE v
    IN Len(digits) > 0 /\ \A k \in 1..Len(digits) : IsDigit(digits[k])

\* C6: whenever the scan is at --wait-for-pid followed by a value v: wait_pid
\* is set when the whole of v is a base-10 integer, and otherwise the step
\* exits with code 1 and leaves wait_pid as it was.
C6_WaitPidWholeInteger ==
    [][ (Scanning /\ IsWaitForPid(Token) /\ i + 1 < argc)
        => IF IsBase10Integer(Arg(argv, i + 1))
           THEN result'.wait_pid.has
           ELSE /\ pc' = "exit" /\ exit_code' = 1
                /\ result'.wait_pid = result.wait_pid ]_vars

\* The command line av with the -i at position k replaced by
\* --ignore-game-patch, or the reverse.
SwapAt(av, k) ==
    [av EXCEPT ![k + 1] = IF @ = T_i THEN T_ignore_game_patch ELSE T_i]

\* What Parse leaves behind: the returned ParsedArgs, the process-wide state,
\* and whether and how the process terminated.
Outcome(s) ==
    [ result |-> s.result, patch_file |-> s.patch_file,
      ignore_game_patches |-> s.ignore_game_patches, config |-> s.config,
      pc |-> s.pc, exit_code |-> s.exit_code ]

\* C7 as stated: replacing any occurrence of -i by --ignore-game-patch, or the
\* reverse, gives the same outcome of Parse.
C7_AnyOccurrence ==
    pc = "main" =>
        \A k \in 1..(argc - 1) :
            Arg(argv, k) \in {T_i, T_ignore_game_patch}
            => Outcome(Parse(SwapAt(argv, k), Cur)) = Outcome(Parse(argv, Cur))

\* The steps the process takes inside Parse are those of the function Parse.
RunIsParse ==
    [][ (pc = "main" \/ pc = "scan") => Cur' = ParseStep(argv, Cur) ]_vars

\* C7 amended, the state part: replacing an occurrence of -i by
\* --ignore-game-patch, or the reverse, at a position the scan reaches as
\* cur_arg (not the value of a value-taking flag, not after the "--" that ends
\* the scan) gives the same outcome of Parse, and the same output.
C7_SwapInvariant ==
    pc = "main" =>
        \A k \in Scanned :
            Arg(argv, k) \in {T_i, T_ignore_game_patch}
            => /\ Outcome(Parse(SwapAt(argv, k), Cur)) = Outcome(Parse(argv, Cur))
               /\ Parse(SwapAt(argv, k), Cur).output = Parse(argv, Cur).output

\* C7 amended: the state part holds of Parse, and Parse is what the process
\* runs.
C7_ScannedOccurrence == []C7_SwapInvariant /\ RunIsParse

\* C7 witness: Parse returned after the scan dispatched --ignore-game-patch,
\* and ignore_game_patches is set.
C7_Witness ==
    /\ pc = "parsed"
    /\ ignore_game_patches
    /\ \E k \in Scanned : Arg(argv, k) = T_ignore_game_patch
    /\ \A k \in Scanned : Arg(argv, k) # T_i

\* C8: when the raw identifier exists, ResolveGamePath never enters its search
\* (no FindGameByID call, install directories not read) and the path it
\* returns is the raw identifier.
C8_ExistingPathNoSearch ==
    (result.has_game_argument /\ Exists(result.game_path))
    => /\ pc # "search"
       /\ find_calls = <<>>
       /\ ~dirs_read
       /\ ~found
       /\ pc \in {"resolved", "run"} => eboot_path = result.game_path

\* C8 witness: ResolveGamePath returned an existing raw identifier while two
\* install directories are configured.
C8_Witness ==
    /\ pc = "resolved"
    /\ Exists(result.game_path)
    /\ eboot_path = result.game_path
    /\ Len(config.install_dirs) >= 2

\* C9, the state part: the FindGameByID calls made so far are on the install
\* directories in their configured order, with depth 5 and the raw identifier;
\* only the last call can have matched; they are made only for a raw
\* identifier that does not exist; and once ResolveGamePath has returned from
\* its search, it returns the match of the last call, or, when every directory
\* was scanned without a match, the raw identifier, which does not exist.
C9_SearchState ==
    /\ Len(find_calls) <= Len(config.install_dirs)
    /\ \A k \in 1..Len(find_calls) :
          /\ find_calls[k].dir = config.install_dirs[k]
          /\ find_calls[k].depth = 5
          /\ find_calls[k].id = result.game_path
          /\ k < Len(find_calls) => ~find_calls[k].hit
    /\ find_calls # <<>> => ~Exists(result.game_path)
    /\ found <=> (find_calls # <<>> /\ find_calls[Len(find_calls)].hit)
    /\ (pc \in {"resolved", "run"} /\ dirs_read) =>
          IF found
          THEN eboot_path = FoundPath(find_calls[Len(find_calls)].dir, result.game_path)
          ELSE /\ Len(find_calls) = Len(config.install_dirs)
               /\ eboot_path = result.game_path
               /\ ~Exists(eboot_path)

\* C9: the state part holds always, and no step of the search of
\* ResolveGamePath terminates the process.
C9_FirstMatchInOrder ==
    /\ []C9_SearchState
    /\ [][pc = "search" => pc' \in {"search", "resolved"}]_vars

\* C9 witness: ResolveGamePath returned the match of the second directory
\* after the first had none.
C9_Witness ==
    /\ pc = "resolved" /\ found
    /\ Len(find_calls) = 2
    /\ ~find_calls[1].hit /\ find_calls[2].hit
    /\ eboot_path = FoundPath(config.install_dirs[2], result.game_path)

\* Parse returned a game argument, and ResolveGamePath found it neither as a
\* filesystem entry nor in any install directory.
GameNotFound ==
    /\ result.has_game_argument /\ ~Exists(result.game_path)
    /\ pc \in {"resolved", "run", "exit"}
    /\ dirs_read /\ ~found

\* C10: when the game is not found, WaitForPid and Run have not been called,
\* main goes from ResolveGamePath's return to exit code 1 and nowhere else.
C10_NotFoundExitsOne ==
    /\ [](GameNotFound =>
            /\ waited = <<>> /\ ran = <<>>
            /\ pc # "run"
            /\ pc = "exit" => exit_code = 1)
    /\ [][(GameNotFound /\ pc = "resolved")
          => (pc' = "exit" /\ exit_code' = 1 /\ waited' = <<>> /\ ran' = <<>>)]_vars

\* C10 witness: main exited with code 1 after two install directories were
\* scanned without a match, with a wait_pid parsed.
C10_Witness ==
    /\ GameNotFound /\ pc = "exit" /\ exit_code = 1
    /\ Len(find_calls) = 2
    /\ result.wait_pid.has
    /\ output[Len(output)] = [msg |-> "Game ID or file path not found",
                              arg |-> result.game_path]

\* C12 as stated: in every state, has_game_argument is true if and only if
\* game_path is not the empty string.
C12_GameArgumentIffPathNonEmpty ==
    result.has_game_argument <=> result.game_path # <<>>

\* C12 amended: in every state a non-empty game_path implies
\* has_game_argument, and the two are only ever written together: a step that
\* changes either leaves has_game_argument true and game_path equal to a token
\* of the command line (which may be the empty string).
C12_WrittenTogether ==
    /\ [](result.game_path # <<>> => result.has_game_argument)
    /\ [][ (result'.game_path # result.game_path
             \/ result'.has_game_argument # result.has_game_argument)
           => /\ result'.has_game_argument
              /\ \E k \in 1..(argc - 1) : result'.game_path = Arg(argv, k) ]_vars

\* C12 witness: Parse returned with has_game_argument true and game_path the
\* empty string, given as the value of -g.
C12_Witness ==
    /\ pc = "parsed"
    /\ result.has_game_argument /\ result.game_path = <<>>
    /\ \E k \in Scanned : IsGame(Arg(argv, k)) /\ k + 1 < argc /\ Arg(argv, k + 1) = <<>>

\* C13: whenever the scan is at a final token without a leading dash, the step
\* makes it the game path and sets has_game_argument if no game path was set,
\* and leaves the parsed result as it was if one was.
C13_PositionalInference ==
    [][ (Scanning /\ i = argc - 1 /\ ~HasLeadingDash(Token))
        => IF ~result.has_game_argument
           THEN /\ result'.game_path = Token
                /\ result'.has_game_argument
                /\ pc' = "scan"
           ELSE result' = result ]_vars

\* C13 witness: Parse returned with the game path given to -g, after the scan
\* passed a different final token without a leading dash.
C13_Witness ==
    /\ pc = "parsed"
    /\ argc = 4 /\ i = argc
    /\ IsGame(Arg(argv, 1))
    /\ ~HasLeadingDash(Arg(argv, 3)) /\ Arg(argv, 3) # Arg(argv, 2)
    /\ result.has_game_argument /\ result.game_path = Arg(argv, 2)

\* C14: whenever the scan is at --add-game-folder or --set-addon-folder
\* followed by a value d: if d is an existing directory the step applies it to
\* the configuration, saves the configuration once and exits with code 0; if
\* not, it exits with code 1 and leaves the configuration as it was.  No step
\* follows an exit.
C14_FolderCommands ==
    /\ [][ (Scanning /\ (IsAddGameFolder(Token) \/ IsSetAddonFolder(Token))
             /\ i + 1 < argc)
           => LET d == Arg(argv, i + 1)
              IN IF d \in Directories
                 THEN /\ pc' = "exit" /\ exit_code' = 0
                      /\ config'.saved = config.saved + 1
                      /\ IF IsAddGameFolder(Token)
                         THEN config' = [config EXCEPT
                                  !.install_dirs = Append(@, d), !.saved = @ + 1]
                         ELSE config' = [config EXCEPT
                                  !.addon_dir = d, !.saved = @ + 1]
                 ELSE /\ pc' = "exit" /\ exit_code' = 1
                      /\ config' = config ]_vars
    /\ [][pc # "exit"]_vars

\* C14 witness: the process exited with code 0 after --set-addon-folder saved
\* an existing directory, with a token left unprocessed.
C14_Witness ==
    /\ pc = "exit" /\ exit_code = 0
    /\ config.saved = 1 /\ config.addon_dir = T_dir
    /\ i + 1 < argc
    /\ output[Len(output)].msg = "Addon folder successfully saved"

\* The call of ResolveGameFolder returned and had no override folder.
ReturnedWithoutOverride == folder_pc = "done" /\ ~provided_folder.has

\* The name of the executable's parent directory cut at its last hyphen.
TruncatedName(f) ==
    LET name == Filename(ParentPath(f))
    IN SubSeq(name, 1, LastPos(name, "-") - 1)

\* The directory next to the executable's parent that carries the truncated
\* name; a directory exists under a name, never under the empty one.
Sibling(f) == PathAppend(ParentPath(ParentPath(f)), TruncatedName(f))
SiblingExists(f, dirs) == TruncatedName(f) # <<>> /\ IsDirectoryIn(Sibling(f), dirs)

\* C11: with no override folder, the folder returned for an executable whose
\* parent's name ends with "-UPDATE" or "-patch" is the sibling named by the
\* truncated name when that sibling exists as a directory, and the parent
\* when it does not exist or the name has neither suffix.
C11_SuffixSibling ==
    ReturnedWithoutOverride
    => IF /\ HasPatchSuffix(Filename(ParentPath(file)))
          /\ SiblingExists(file, fs_dirs)
       THEN resolved = Sibling(file)
       ELSE resolved = ParentPath(file)

\* The directories that contain p, at any distance.
RECURSIVE Ancestors(_)
Ancestors(p) ==
    IF ParentPath(p) = p \/ p = <<>> THEN {}
    ELSE { ParentPath(p) } \cup Ancestors(ParentPath(p))

\* C15: with no override folder, the folder returned is the executable's
\* parent, or an existing directory with a non-empty name in the directory
\* that contains the parent; it is never a directory that contains the
\* parent.
C15_ParentOrNamedSibling ==
    ReturnedWithoutOverride
    => LET parent == ParentPath(file)
       IN /\ \/ resolved = parent
             \/ /\ IsDirectoryIn(resolved, fs_dirs)
                /\ ParentPath(resolved) = ParentPath(parent)
                /\ Filename(resolved) # <<>>
          /\ StripSeparators(resolved) \notin Ancestors(parent)

====
